---- MODULE Spec2Model ----
(***************************************************************************)
(* Model of the H3 tessellation demo: tessellation_local.py (local CSV +   *)
(* h3 library) and tessellation.py (remote SQL).  A Streamlit script run   *)
(* is one atomic action; the st.cache_* decorators are partial functions   *)
(* from argument tuples to values whose entries a ttl expiry removes.      *)
(***************************************************************************)
EXTENDS Integers, Sequences, FiniteSets, Bags, TLC

VARIABLES
    variant,            \* "local" (tessellation_local.py) or "remote" (tessellation.py)
    h3,                 \* the installed h3 library: attribute names, grid_disk behaviour
    table,              \* rows of the CSV / of h3_polygon_spherical
    planar,             \* rows (scale_of_polygon) of h3_polygon_planar, the joined table
    poly_scale_2,       \* selectbox "Scale of polygon"
    original_shape_2,   \* selectbox "Show original shape"
    h3_res_2,           \* slider "H3 resolution"
    _latlng_to_h3,      \* module-level probe results (tessellation_local.py:9-11)
    _polygon_to_cells,
    _grid_disk,
    cache_shape,        \* memo of get_df_shape_2, keyed by scale
    cache_polyfill,     \* memo of get_df_polyfill_2, keyed by (res, scale)
    cache_coverage,     \* memo of get_df_coverage_2, keyed by (res, scale)
    fillCalls,          \* grid-index fill calls made by the latest script run
    rendered,           \* what the latest script run handed to st.pydeck_chart
    call,               \* function harness: the call made
    ret                 \* function harness: its outcome

vars == <<variant, h3, table, planar, poly_scale_2, original_shape_2, h3_res_2,
          _latlng_to_h3, _polygon_to_cells, _grid_disk,
          cache_shape, cache_polyfill, cache_coverage, fillCalls, rendered,
          call, ret>>

Range(s) == {s[i] : i \in DOMAIN s}

(***************************************************************************)
(* Bounds of the model.                                                    *)
(***************************************************************************)
\* side of the hexagonal torus that stands for the cell space of one resolution
GridN == 3
\* how many slider positions other than the two defaults the user moves to
ExtraRes == 2

(***************************************************************************)
(* The external grid index.  Cells of resolution r are <<r, i>>, i a       *)
(* position on a GridN x GridN torus with the six hexagonal offsets.       *)
(***************************************************************************)
NumCells == GridN * GridN

Pos(x, y) == (x % GridN) + GridN * (y % GridN)

\* the radius-1 ring of a position, the position itself excluded
Adjacent(i) ==
    LET x == i % GridN
        y == i \div GridN
    IN  {Pos(x + 1, y), Pos(x + GridN - 1, y), Pos(x, y + 1), Pos(x, y + GridN - 1),
         Pos(x + 1, y + GridN - 1), Pos(x + GridN - 1, y + 1)} \ {i}

CellsAt(res) == {<<res, i>> : i \in 0 .. NumCells - 1}

\* h3.grid_disk(h, 1) / h3.k_ring(h, 1); whether the origin is part of the
\* result is a property of the installed library
LibGridDisk(h, hasSelf) ==
    {<<h[1], j>> : j \in Adjacent(h[2])} \cup (IF hasSelf THEN {h} ELSE {})

\* resolutions the index accepts
ValidRes == 0 .. 15

\* the index's polygon -> cells result for an exterior ring: the cells holding
\* the ring's vertices, widened at even resolutions by the ring of cells around
\* the first vertex
LibFill(ring, res) ==
    LET seeds == {p % NumCells : p \in Range(ring)}
        wide  == seeds \cup Adjacent(ring[1] % NumCells)
    IN  {<<res, i>> : i \in IF res % 2 = 0 THEN wide ELSE seeds}

\* the remote h3_coverage_strings: every cell overlapping the polygon, a looser
\* criterion than the fill
LibCoverage(ring, res) ==
    LET seeds == {p % NumCells : p \in Range(ring)}
    IN  {<<res, i>> : i \in seeds \cup UNION {Adjacent(i) : i \in seeds}}

V3Names == {"geo_to_h3", "polyfill", "k_ring"}
V4Names == {"latlng_to_cell", "polygon_to_cells", "grid_disk"}

\* h3.polygon_to_cells(gj, res) takes two arguments; h3.polyfill(gj, res) without
\* geo_json_conformant=True reads every position as (lat, lng), another place
LibPolygonToCells(fn, args) ==
    IF fn = "polygon_to_cells" /\ Len(args) # 2
    THEN [ok |-> FALSE, err |-> "TypeError"]
    ELSE IF args[2] \notin ValidRes
    THEN [ok |-> FALSE, err |-> "H3ResDomainError"]
    ELSE IF fn = "polyfill" /\ Len(args) = 2
    THEN [ok |-> TRUE,
          val |-> LibFill([i \in DOMAIN args[1].coordinates[1] |->
                              args[1].coordinates[1][i] + 1], args[2])]
    ELSE [ok |-> TRUE, val |-> LibFill(args[1].coordinates[1], args[2])]

(***************************************************************************)
(* GeoJSON.  A position is an integer; coordinates nest to depth 1 for a   *)
(* LineString, 2 for a Polygon, 3 for a MultiPolygon.  A value read out of *)
(* a geometry carries the depth it was found at.                           *)
(***************************************************************************)
NoType == "None"

CoordDepth(g) ==
    IF g.type = "LineString" THEN 1
    ELSE IF g.type = "MultiPolygon" THEN 3
    ELSE 2

Ok(depth, val) == [ok |-> TRUE, depth |-> depth, val |-> val]
Err(kind, what) == [ok |-> FALSE, err |-> kind, carries |-> what]

\* tessellation_local.py, get_df_shape_2.extract_rings
extract_rings(g) ==
    IF g.type = "Polygon" THEN Ok(1, g.coordinates[1])
    ELSE IF g.type = "MultiPolygon" THEN Ok(1, g.coordinates[1][1])
    ELSE Err("Unsupported GeoJSON type", g.type)

\* tessellation.py, the lambda of get_df_shape_2
remote_coordinates(g) == Ok(CoordDepth(g) - 1, g.coordinates[1])

Extract(v, g) == IF v = "local" THEN extract_rings(g) ELSE remote_coordinates(g)

(***************************************************************************)
(* Boundary derivation, tessellation_local.py get_df_coverage_2.           *)
(***************************************************************************)
\* lines 104-106: the neighbours of h, h itself excluded
Neighs(h, hasSelf) == LibGridDisk(h, hasSelf) \ {h}

IsBoundaryCellAll(h, poly, hasSelf) == \A n \in Neighs(h, hasSelf) : n \notin poly

\* line 107: any(n not in poly for n in neighs)
IsBoundaryCell(h, poly, hasSelf) == \E n \in Neighs(h, hasSelf) : n \notin poly

\* lines 101-108: the loop over poly, one cell per iteration
RECURSIVE BoundaryLoop(_, _, _, _)
BoundaryLoop(todo, poly, boundary, hasSelf) ==
    IF todo = {} THEN boundary
    ELSE LET h == CHOOSE x \in todo : TRUE
         IN  BoundaryLoop(todo \ {h}, poly,
                          IF IsBoundaryCell(h, poly, hasSelf)
                          THEN boundary \cup {h} ELSE boundary,
                          hasSelf)

BoundaryOfNeighbours(poly, hasSelf) ==
    {n \in UNION {Neighs(h, hasSelf) : h \in poly} : n \notin poly}

BoundaryInterior(poly, hasSelf) == poly \ BoundaryLoop(poly, poly, {}, hasSelf)

\* lines 100-108: poly read back from the polyfill frame, then the loop
Boundary(poly, hasSelf) == BoundaryLoop(poly, poly, {}, hasSelf)

\* line 77-78: a one-column frame, one row per element
df_from_h3_set(h3_set) == SetToBag(h3_set)

(***************************************************************************)
(* Capability probe and fill call, tessellation_local.py.                  *)
(***************************************************************************)
\* getattr(h3, new, None) or getattr(h3, old)
Probe(names, new, old) ==
    IF new \in names THEN new
    ELSE IF old \in names THEN old
    ELSE "AttributeError"

\* getattr(h3, name, None)
GetAttrOrNone(names, name) == IF name \in names THEN name ELSE "None"

FillArgsAlwaysTyped(names, bound, gj, res) == <<gj, res>>

\* lines 87-90: the arguments the bound function is called with
FillArgs(names, bound, gj, res) ==
    IF bound = GetAttrOrNone(names, "polygon_to_cells")
    THEN <<gj, res>>
    ELSE <<gj, res, TRUE>>

FillResClamped(res) == IF res < 0 THEN 0 ELSE IF res > 15 THEN 15 ELSE res

\* the resolution handed on by get_df_polyfill_2
FillRes(res) == res

\* lines 69-74: polygon_geojson_for, from the first row of the shape frame
polygon_geojson_for(shape) == [type |-> "Polygon", coordinates |-> <<shape[1].val>>]

\* lines 85-91: the body of get_df_polyfill_2; calls lists the grid-index
\* calls made and the library attributes each call looked up first
FillOutcome(bound, args, res, r) ==
    LET c == [fn |-> bound, args |-> args, looked_up |-> {"polygon_to_cells"}]
    IN  IF r.ok
        THEN [ok |-> TRUE, val |-> df_from_h3_set(r.val), calls |-> <<c>>]
        ELSE [ok |-> FALSE, err |-> r.err, carries |-> res, calls |-> <<c>>]

FillCall(bound, args, res) == FillOutcome(bound, args, res, LibPolygonToCells(bound, args))

polyfill_body(names, bound, shape, res) ==
    FillCall(bound, FillArgs(names, bound, polygon_geojson_for(shape), FillRes(res)), res)

(***************************************************************************)
(* Data source bindings.                                                   *)
(***************************************************************************)
RowsFor(tbl, scale) == SelectSeq(tbl, LAMBDA r : r.scale_of_polygon = scale)

\* get_df_shape_2: tessellation_local.py:44-66, tessellation.py:28-34
get_df_shape_2(v, tbl, scale) ==
    LET rows == RowsFor(tbl, scale)
        ex   == [i \in DOMAIN rows |-> Extract(v, rows[i].geog)]
        bad  == {i \in DOMAIN rows : ~ex[i].ok}
    IN  IF v = "local" /\ rows = <<>>
        THEN Err("No polygon found in CSV", scale)
        ELSE IF bad # {}
        THEN ex[CHOOSE i \in bad : \A j \in bad : i <= j]
        ELSE [ok |-> TRUE, val |-> ex]

\* the polygons written into the SQL text of tessellation.py
HardRing(scale) == IF scale = "Global" THEN <<0, 1, 4, 0>> ELSE <<4, 5, 8, 4>>

\* rows of h3_polygon_planar the query keeps: the Global text has no WHERE
JoinedRows(pl, scale) ==
    IF scale = "Global" THEN Len(pl)
    ELSE Len(SelectSeq(pl, LAMBDA s : s = scale))

\* select value::string as h3 from h3_polygon_planar, TABLE(FLATTEN(<cells>))
SqlCells(pl, cells, scale) ==
    LET n == JoinedRows(pl, scale)
    IN  IF n = 0 THEN EmptyBag ELSE [c \in cells |-> n]

\* tessellation.py:50-59 and 72-81
remote_coverage(pl, res, scale) == SqlCells(pl, LibCoverage(HardRing(scale), res), scale)
remote_polyfill(pl, res, scale) == SqlCells(pl, LibFill(HardRing(scale), res), scale)

(***************************************************************************)
(* Widgets, tessellation_local.py:16-28 (the same in tessellation.py).     *)
(***************************************************************************)
Scales == {"Global", "Local"}
MinV(scale) == IF scale = "Global" THEN 2 ELSE 7
MaxV(scale) == IF scale = "Global" THEN 5 ELSE 10
DefaultV(scale) == IF scale = "Global" THEN 4 ELSE 9

\* slider positions the user moves to: the default and the steps below it,
\* ExtraRes of them over the two scales
ResSpan(scale) == IF scale = "Local" THEN (ExtraRes + 1) \div 2 ELSE ExtraRes \div 2

SliderChoices(scale) ==
    {r \in MinV(scale) .. MaxV(scale) :
        DefaultV(scale) - ResSpan(scale) <= r /\ r <= DefaultV(scale)}

(***************************************************************************)
(* Memoised data functions.  A memo is a function from the keys it holds.  *)
(***************************************************************************)
EmptyMemo == [k \in {} |-> 0]

Without(memo, key) == [k \in DOMAIN memo \ {key} |-> memo[k]]

CacheKeyScaleOnly(res, scale) == <<0, scale>>

\* st.cache_data / st.cache_resource key of f(res, scale): both arguments
CacheKey(res, scale) == <<res, scale>>

\* get_df_shape_2 behind its memo
ShapeMiss(cs, scale, r) ==
    IF r.ok
    THEN [ok |-> TRUE, val |-> r.val, cs |-> (scale :> r.val) @@ cs]
    ELSE [ok |-> FALSE, err |-> r.err, carries |-> r.carries, cs |-> cs]

ShapeStep(cs, scale) ==
    IF scale \in DOMAIN cs
    THEN [ok |-> TRUE, val |-> cs[scale], cs |-> cs]
    ELSE ShapeMiss(cs, scale, get_df_shape_2(variant, table, scale))

\* get_df_polyfill_2 behind its memo: tessellation_local.py:80-91,
\* tessellation.py:72-81
PolyfillMiss(cp, key, r) ==
    IF r.ok
    THEN [ok |-> TRUE, val |-> r.val, cp |-> (key :> r.val) @@ cp, calls |-> r.calls]
    ELSE [ok |-> FALSE, err |-> r.err, carries |-> r.carries, cp |-> cp,
          calls |-> r.calls]

PolyfillStep(bound, cp, shape, res, scale) ==
    LET key == CacheKey(res, scale)
    IN  IF key \in DOMAIN cp
        THEN [ok |-> TRUE, val |-> cp[key], cp |-> cp, calls |-> <<>>]
        ELSE PolyfillMiss(cp, key,
                 IF variant = "local"
                 THEN polyfill_body(h3.names, bound, shape, res)
                 ELSE [ok |-> TRUE, val |-> remote_polyfill(planar, res, scale),
                       calls |-> <<>>])

\* get_df_coverage_2 behind its memo: tessellation_local.py:93-109,
\* tessellation.py:50-59
CoverageStored(cc, key, v, cp, calls) ==
    [ok |-> TRUE, val |-> v, cc |-> (key :> v) @@ cc, cp |-> cp, calls |-> calls]

\* tessellation_local.py:100-109, on the frame get_df_polyfill_2 returned
CoverageMiss(cc, key, p) ==
    IF ~p.ok
    THEN [ok |-> FALSE, err |-> p.err, carries |-> p.carries, cc |-> cc,
          cp |-> p.cp, calls |-> p.calls]
    ELSE CoverageStored(cc, key,
                        df_from_h3_set(Boundary(BagToSet(p.val), h3.diskHasSelf)),
                        p.cp, p.calls)

CoverageStep(bound, cc, cp, shape, res, scale) ==
    LET key == CacheKey(res, scale)
    IN  IF key \in DOMAIN cc
        THEN [ok |-> TRUE, val |-> cc[key], cc |-> cc, cp |-> cp, calls |-> <<>>]
        ELSE IF variant = "remote"
        THEN CoverageStored(cc, key, remote_coverage(planar, res, scale), cp, <<>>)
        ELSE CoverageMiss(cc, key, PolyfillStep(bound, cp, shape, res, scale))

(***************************************************************************)
(* One script run: probe, widgets, data, layers, charts.                   *)
(***************************************************************************)
Layer(type, df) == [type |-> type, data |-> df]

Aborted(err, what) ==
    [status |-> err, carries |-> what, coverage_layers |-> <<>>, polyfill_layers |-> <<>>]

\* lines 151-156: the two layer lists
Visible(layer, layer_shape, toggle) ==
    IF toggle = "Yes" THEN <<layer, layer_shape>> ELSE <<layer>>

NoStep == [ok |-> FALSE]

RunScript(scale, toggle, res) ==
    LET startup == variant = "local"
        latlng  == Probe(h3.names, "latlng_to_cell", "geo_to_h3")
        p2c     == Probe(h3.names, "polygon_to_cells", "polyfill")
        disk    == Probe(h3.names, "grid_disk", "k_ring")
        failed  == startup /\ "AttributeError" \in {latlng, p2c, disk}
    IN  /\ _latlng_to_h3' = IF startup /\ latlng # "AttributeError"
                            THEN latlng ELSE _latlng_to_h3
        /\ _polygon_to_cells' = IF startup /\ "AttributeError" \notin {latlng, p2c}
                                THEN p2c ELSE _polygon_to_cells
        /\ _grid_disk' = IF startup /\ ~failed THEN disk ELSE _grid_disk
        /\ IF failed
           THEN /\ rendered' = Aborted("AttributeError", "h3")
                /\ fillCalls' = <<>>
                /\ UNCHANGED <<poly_scale_2, original_shape_2, h3_res_2,
                               cache_shape, cache_polyfill, cache_coverage>>
           ELSE \E s \in {ShapeStep(cache_shape, scale)} :
                \E c \in {IF s.ok
                          THEN CoverageStep(p2c, cache_coverage, cache_polyfill,
                                            s.val, res, scale)
                          ELSE NoStep} :
                \E p \in {IF s.ok /\ c.ok
                          THEN PolyfillStep(p2c, c.cp, s.val, res, scale)
                          ELSE NoStep} :
                /\ poly_scale_2' = scale
                /\ original_shape_2' = toggle
                /\ h3_res_2' = res
                /\ cache_shape' = s.cs
                /\ IF ~s.ok
                   THEN /\ rendered' = Aborted(s.err, s.carries)
                        /\ fillCalls' = <<>>
                        /\ UNCHANGED <<cache_polyfill, cache_coverage>>
                   ELSE IF ~c.ok
                   THEN /\ rendered' = Aborted(c.err, c.carries)
                        /\ fillCalls' = c.calls
                        /\ cache_polyfill' = c.cp
                        /\ cache_coverage' = c.cc
                   ELSE IF ~p.ok
                   THEN /\ rendered' = Aborted(p.err, p.carries)
                        /\ fillCalls' = c.calls \o p.calls
                        /\ cache_polyfill' = p.cp
                        /\ cache_coverage' = c.cc
                   ELSE /\ rendered' =
                              [status |-> "ok", carries |-> "",
                               coverage_layers |->
                                   Visible(Layer("H3HexagonLayer", c.val),
                                           Layer("PolygonLayer", s.val), toggle),
                               polyfill_layers |->
                                   Visible(Layer("H3HexagonLayer", p.val),
                                           Layer("PolygonLayer", s.val), toggle)]
                        /\ fillCalls' = c.calls \o p.calls
                        /\ cache_polyfill' = p.cp
                        /\ cache_coverage' = c.cc
        /\ UNCHANGED <<variant, h3, table, planar, call, ret>>

\* the first run of a session: every widget at its default
FirstRun ==
    /\ rendered.status = "not_run"
    /\ RunScript("Local", "Yes", DefaultV("Local"))

\* the user picks another scale: the slider is rebuilt at the new default
ChangeScale ==
    /\ rendered.status \notin {"not_run", "AttributeError"}
    /\ \E scale \in Scales \ {poly_scale_2} :
           RunScript(scale, original_shape_2, DefaultV(scale))

\* the user moves the resolution slider
ChangeResolution ==
    /\ rendered.status \notin {"not_run", "AttributeError"}
    /\ \E res \in SliderChoices(poly_scale_2) \ {h3_res_2} :
           RunScript(poly_scale_2, original_shape_2, res)

\* the user toggles "Show original shape"
ToggleShape ==
    /\ rendered.status \notin {"not_run", "AttributeError"}
    /\ \E toggle \in {"Yes", "No"} \ {original_shape_2} :
           RunScript(poly_scale_2, toggle, h3_res_2)

\* ttl="2d": an entry of a memo expires
ExpireShape ==
    /\ \E k \in DOMAIN cache_shape : cache_shape' = Without(cache_shape, k)
    /\ UNCHANGED <<variant, h3, table, planar, poly_scale_2, original_shape_2, h3_res_2,
                   _latlng_to_h3, _polygon_to_cells, _grid_disk,
                   cache_polyfill, cache_coverage, fillCalls, rendered, call, ret>>

ExpirePolyfill ==
    /\ \E k \in DOMAIN cache_polyfill : cache_polyfill' = Without(cache_polyfill, k)
    /\ UNCHANGED <<variant, h3, table, planar, poly_scale_2, original_shape_2, h3_res_2,
                   _latlng_to_h3, _polygon_to_cells, _grid_disk,
                   cache_shape, cache_coverage, fillCalls, rendered, call, ret>>

ExpireCoverage ==
    /\ \E k \in DOMAIN cache_coverage : cache_coverage' = Without(cache_coverage, k)
    /\ UNCHANGED <<variant, h3, table, planar, poly_scale_2, original_shape_2, h3_res_2,
                   _latlng_to_h3, _polygon_to_cells, _grid_disk,
                   cache_shape, cache_polyfill, fillCalls, rendered, call, ret>>

(***************************************************************************)
(* Installations and data sets.                                            *)
(***************************************************************************)
Row(scale, geog) == [scale_of_polygon |-> scale, geog |-> geog]

GlobalPolygon == [type |-> "Polygon", coordinates |-> << <<0, 1, 4, 0>> >>]
LocalPolygon  == [type |-> "Polygon", coordinates |-> << <<4, 5, 8, 4>>, <<4, 7, 4>> >>]
LocalMulti    == [type |-> "MultiPolygon",
                  coordinates |-> << << <<4, 5, 8, 4>>, <<4, 7, 4>> >>,
                                     << <<2, 3, 6, 2>> >> >>]

Tables ==
    { << Row("Global", GlobalPolygon), Row("Local", LocalMulti) >>,
      << Row("Local", LocalPolygon) >> }

Planars == { <<"Global", "Local">>, <<"Local">> }

H3Builds ==
    { [names |-> V3Names, diskHasSelf |-> FALSE],
      [names |-> V4Names, diskHasSelf |-> TRUE],
      [names |-> {}, diskHasSelf |-> TRUE] }

NoCall == [fn |-> "none"]

InitCommon ==
    /\ poly_scale_2 = "Local"
    /\ original_shape_2 = "Yes"
    /\ h3_res_2 = DefaultV("Local")
    /\ _latlng_to_h3 = "unset"
    /\ _polygon_to_cells = "unset"
    /\ _grid_disk = "unset"
    /\ cache_shape = EmptyMemo
    /\ cache_polyfill = EmptyMemo
    /\ cache_coverage = EmptyMemo
    /\ fillCalls = <<>>
    /\ rendered = [status |-> "not_run", carries |-> "",
                   coverage_layers |-> <<>>, polyfill_layers |-> <<>>]
    /\ call = NoCall
    /\ ret = NoCall

Init ==
    /\ variant = "local"
    /\ h3 \in H3Builds
    /\ table \in Tables
    /\ planar = <<>>
    /\ InitCommon

InitRemote ==
    /\ variant = "remote"
    /\ h3 = [names |-> {}, diskHasSelf |-> TRUE]
    /\ table \in Tables
    /\ planar \in Planars
    /\ InitCommon

Next ==
    \/ FirstRun
    \/ ChangeScale
    \/ ChangeResolution
    \/ ToggleShape
    \/ ExpireShape
    \/ ExpirePolyfill
    \/ ExpireCoverage

\* tessellation_local.py
Spec == Init /\ [][Next]_vars

\* tessellation.py
SpecRemote == InitRemote /\ [][Next]_vars

(***************************************************************************)
(* The data functions called on their own, over bounded inputs: one call    *)
(* per behaviour.                                                          *)
(***************************************************************************)
Geometries ==
    { GlobalPolygon, LocalPolygon, LocalMulti,
      [type |-> "MultiPolygon", coordinates |-> << << <<0, 1, 4, 0>> >> >>],
      [type |-> "LineString", coordinates |-> <<0, 1, 4>>],
      [type |-> "MultiLineString", coordinates |-> << <<0, 1, 4>>, <<4, 5>> >>],
      [type |-> NoType, coordinates |-> << <<0, 1, 4, 0>> >>] }

\* resolutions handed to get_df_polyfill_2: the valid range and one step past
\* each end
ResInputs == {r - 1 : r \in ValidRes} \cup {r + 1 : r \in ValidRes}

FnUnchanged ==
    UNCHANGED <<variant, h3, table, planar, poly_scale_2, original_shape_2, h3_res_2,
                _latlng_to_h3, _polygon_to_cells, _grid_disk,
                cache_shape, cache_polyfill, cache_coverage, fillCalls, rendered>>

\* extract_rings(geojson) / the remote lambda on one stored geometry
CallExtract ==
    /\ call = NoCall
    /\ \E v \in {"local", "remote"}, g \in Geometries :
           /\ call' = [fn |-> "extract_rings", variant |-> v, g |-> g]
           /\ ret' = Extract(v, g)
    /\ FnUnchanged

\* lines 100-108 of get_df_coverage_2 on an arbitrary fill set
CallBoundary ==
    /\ call = NoCall
    /\ \E poly \in SUBSET CellsAt(DefaultV("Local")), hasSelf \in BOOLEAN :
           /\ call' = [fn |-> "get_df_coverage_2", poly |-> poly, hasSelf |-> hasSelf]
           /\ ret' = [ok |-> TRUE, val |-> Boundary(poly, hasSelf)]
    /\ FnUnchanged

\* the body of get_df_polyfill_2 under an importable h3
CallPolyfill ==
    /\ call = NoCall
    /\ \E b \in {x \in H3Builds : x.names # {}}, res \in ResInputs, scale \in Scales :
           /\ call' = [fn |-> "get_df_polyfill_2", names |-> b.names, res |-> res,
                       scale |-> scale]
           /\ ret' = polyfill_body(b.names,
                                   Probe(b.names, "polygon_to_cells", "polyfill"),
                                   get_df_shape_2("local", table, scale).val, res)
    /\ FnUnchanged

FnInit ==
    /\ variant = "local"
    /\ h3 = [names |-> {}, diskHasSelf |-> TRUE]
    /\ table = << Row("Global", GlobalPolygon), Row("Local", LocalMulti) >>
    /\ planar = <<>>
    /\ InitCommon

FnNext ==
    \/ CallExtract
    \/ CallBoundary
    \/ CallPolyfill

SpecFn == FnInit /\ [][FnNext]_vars

(***************************************************************************)
(* Properties.                                                             *)
(***************************************************************************)
\* the radius-1 ring of a cell on the grid, the cell itself never part of it
TrueNeighbours(c) == {<<c[1], j>> : j \in Adjacent(c[2])}

\* a fill set's boundary as the data model defines it
SpecBoundary(fill) == {c \in fill : \E n \in TrueNeighbours(c) : n \notin fill}

\* the exterior ring stored for a scale
StoredRing(scale) ==
    LET g == RowsFor(table, scale)[1].geog
    IN  IF g.type = "MultiPolygon" THEN g.coordinates[1][1] ELSE g.coordinates[1]

RenderedCoverage == BagToSet(rendered.coverage_layers[1].data)
RenderedPolyfill == BagToSet(rendered.polyfill_layers[1].data)

\* C1: a cell is in the boundary computed from a fill set iff it is in the fill
\* set and one of its radius-1 neighbours other than itself is not, whether or
\* not the neighbour primitive returns the cell itself.
C1_BoundaryMembership ==
    call.fn = "get_df_coverage_2" =>
        \A c \in CellsAt(DefaultV("Local")) :
            c \in ret.val <=>
                (c \in call.poly /\ \E n \in TrueNeighbours(c) : n \notin call.poly)

C1_Witness ==
    /\ call.fn = "get_df_coverage_2"
    /\ call.hasSelf
    /\ ret.val # {}
    /\ ret.val # call.poly

\* C2: every cell get_df_coverage_2(res, scale) returns is a cell
\* get_df_polyfill_2(res, scale) returns, in the frames rendered and in the
\* memoised frames of one key.
C2_BoundarySubsetOfFill ==
    /\ rendered.status = "ok" => RenderedCoverage \subseteq RenderedPolyfill
    /\ \A k \in DOMAIN cache_coverage \cap DOMAIN cache_polyfill :
           BagToSet(cache_coverage[k]) \subseteq BagToSet(cache_polyfill[k])

C2_Witness ==
    /\ rendered.status = "ok"
    /\ RenderedCoverage # {}
    /\ RenderedCoverage # RenderedPolyfill
    /\ CacheKey(h3_res_2, poly_scale_2) \in DOMAIN cache_coverage \cap DOMAIN cache_polyfill

\* C3: in every render pass the coverage frame handed to the renderer is the
\* boundary of the polyfill frame handed over in the same pass, and that frame
\* is the fill of the selected scale's ring at the selected resolution.
C3_RenderedBoundaryMatchesSelection ==
    rendered.status = "ok" =>
        /\ RenderedPolyfill = LibFill(StoredRing(poly_scale_2), h3_res_2)
        /\ RenderedCoverage = SpecBoundary(RenderedPolyfill)

C3_Witness ==
    /\ rendered.status = "ok"
    /\ poly_scale_2 = "Global"
    /\ h3_res_2 = DefaultV("Global")
    /\ original_shape_2 = "No"
    /\ fillCalls = <<>>
    /\ CacheKey(DefaultV("Global") - 1, "Global") \in DOMAIN cache_coverage
    /\ CacheKey(DefaultV("Local"), "Local") \in DOMAIN cache_coverage
    /\ CacheKey(DefaultV("Local"), "Local") \notin DOMAIN cache_polyfill
    /\ RenderedCoverage # RenderedPolyfill

\* C4: the extractor returns coordinates[0] for a Polygon and coordinates[0][0]
\* for a MultiPolygon, the first polygon's first ring and nothing else, in the
\* local and in the remote binding.
C4_FirstRingOnly ==
    call.fn = "extract_rings" =>
        /\ call.g.type = "Polygon" =>
               ret.ok /\ ret.depth = 1 /\ ret.val = call.g.coordinates[1]
        /\ call.g.type = "MultiPolygon" =>
               ret.ok /\ ret.depth = 1 /\ ret.val = call.g.coordinates[1][1]

\* C5: a geometry whose type is neither Polygon nor MultiPolygon (or is
\* missing) fails with an unsupported-type error carrying the type; nothing is
\* returned.
C5_UnsupportedTypeFails ==
    (call.fn = "extract_rings" /\ call.g.type \notin {"Polygon", "MultiPolygon"}) =>
        ~ret.ok /\ ret.err = "Unsupported GeoJSON type" /\ ret.carries = call.g.type

\* C6: when the data source holds no record for the selected scale, the run
\* fails with a no-geometry error and no layer is drawn.
C6_NoGeometryAborts ==
    (rendered.status # "not_run" /\ RowsFor(table, poly_scale_2) = <<>>) =>
        /\ rendered.status # "ok"
        /\ rendered.coverage_layers = <<>>
        /\ rendered.polyfill_layers = <<>>

\* C7 as stated: a resolution outside the valid range fails with an
\* invalid-resolution error before any grid-index call is made.
C7_InvalidResolutionBeforeCall ==
    (call.fn = "get_df_polyfill_2" /\ call.res \notin ValidRes) =>
        ~ret.ok /\ ret.err = "InvalidResolution" /\ ret.calls = <<>>

\* C7 amended: the fill operation hands every resolution, in range or not,
\* unchanged to exactly one grid-index call; nothing is checked before it.
C7_ResolutionForwarded ==
    call.fn = "get_df_polyfill_2" =>
        /\ Len(ret.calls) = 1
        /\ ret.calls[1].args[2] = call.res

C7_Witness ==
    /\ call.fn = "get_df_polyfill_2"
    /\ call.res \notin ValidRes
    /\ Len(ret.calls) = 1
    /\ ~ret.ok

\* C8: no fill operation returns a cell identifier more than once, whatever
\* the number of rows of the joined table.
C8_NoDuplicateCells ==
    rendered.status = "ok" =>
        /\ \A c \in DOMAIN rendered.coverage_layers[1].data :
               rendered.coverage_layers[1].data[c] <= 1
        /\ \A c \in DOMAIN rendered.polyfill_layers[1].data :
               rendered.polyfill_layers[1].data[c] <= 1

\* C9: the boundary of a fill set is empty iff the fill set is empty or every
\* cell of it has its whole radius-1 ring inside it.
C9_EmptyBoundary ==
    call.fn = "get_df_coverage_2" =>
        (ret.val = {} <=>
            (call.poly = {} \/ \A c \in call.poly : TrueNeighbours(c) \subseteq call.poly))

C9_Witness ==
    /\ call.fn = "get_df_coverage_2"
    /\ call.poly = CellsAt(DefaultV("Local"))
    /\ ret.val = {}

\* C10 as stated: after the startup probe no fill call looks at the library's
\* API shape again.
C10_NoPerCallBranch ==
    \A i \in DOMAIN fillCalls : fillCalls[i].looked_up = {}

ProbesOf(names) ==
    {Probe(names, "latlng_to_cell", "geo_to_h3"),
     Probe(names, "polygon_to_cells", "polyfill"),
     Probe(names, "grid_disk", "k_ring")}

C10_CallsFollowProbe ==
    /\ \A i \in DOMAIN fillCalls :
           /\ fillCalls[i].fn = _polygon_to_cells
           /\ fillCalls[i].fn = "polygon_to_cells" => Len(fillCalls[i].args) = 2
           /\ fillCalls[i].fn = "polyfill" =>
                  Len(fillCalls[i].args) = 3 /\ fillCalls[i].args[3] = TRUE
    /\ ("AttributeError" \in ProbesOf(h3.names) /\ rendered.status # "not_run") =>
           /\ rendered.status = "AttributeError"
           /\ fillCalls = <<>>
           /\ cache_polyfill = EmptyMemo

C10_ProbeKept ==
    /\ _latlng_to_h3 # "unset" => _latlng_to_h3' = _latlng_to_h3
    /\ _polygon_to_cells # "unset" => _polygon_to_cells' = _polygon_to_cells
    /\ _grid_disk # "unset" => _grid_disk' = _grid_disk

\* C10 amended: the convention is chosen by the probe at the top of the
\* script, the probe result never changes once set, every fill call calls the
\* probed function in its own style (testing the library's attribute again on
\* each call), and with neither convention present the run fails at the probe.
C10_ConventionFixedAtStartup == []C10_CallsFollowProbe /\ [][C10_ProbeKept]_vars

C10_Witness ==
    /\ rendered.status = "ok"
    /\ Len(fillCalls) = 1
    /\ fillCalls[1].fn = "polyfill"
    /\ h3_res_2 # DefaultV("Local")

====
